---- MODULE Spec2Model ----
(***************************************************************************)
(* Model of tools/imported_dynamic_framework_processor: one run of main()  *)
(* over a small filesystem.  Paths are absolute POSIX paths, kept as the   *)
(* number of leading slashes and the sequence of their components.  Python *)
(* values that the code compares or tests for truth carry their type.      *)
(***************************************************************************)
EXTENDS Integers, Sequences, FiniteSets, TLC

VARIABLES
  args,            \* the parsed command line (main, lines 98-123)
  src,             \* the source bundles on disk, by bundle root
  temp,            \* what is at args.temp_path
  zip,             \* what is at args.output_zip
  pc,              \* position in main()
  all_binary_archs,
  framework_archs,
  slices_needed,
  status_code,
  ret,             \* main()'s return value, or the exception that left it
  exit_status,     \* the process exit status set by sys.exit(main())
  steps,           \* the driver-level steps taken, in order
  tools,           \* invocations of chmod / lipo / bitcode_strip / utime, in order
  host,            \* what the runs have seen of the machine they run on
  history,         \* how the earlier runs with this command line ended
  loc,             \* one call of _relpath_from_framework, statement by statement
  pack             \* two calls of _zip_framework on directories of equal content

aux == <<history, loc, pack>>
vars == <<args, src, temp, zip, pc, all_binary_archs, framework_archs,
          slices_needed, status_code, ret, exit_status, steps, tools, host,
          history, loc, pack>>

\* ---------------------------------------------------------------- bounds
MaxSlices == 2        \* longest --slice list
MaxBinaries == 2      \* longest --framework_binary list
MaxSignStatus == 2    \* largest status the signing step returns
MaxDepth == 3         \* most components of a path given to the locator alone
MaxLead == 2          \* most leading slashes of such a path
MaxMtime == 2         \* latest modification time of an entry given to the packager alone
MaxRuns == 2          \* most runs of the pipeline, one after the other

\* ------------------------------------------------------- Python values
PyNone == [type |-> "NoneType"]
PyInt(n) == [type |-> "int", val |-> n]
PyList(s) == [type |-> "list", val |-> s]
PySet(S) == [type |-> "set", val |-> S]
PyTuple(t) == [type |-> "tuple", val |-> t]
PyExc(name) == [type |-> "exception", val |-> name]

\* Python's ==: values of different builtin types (a list and a set, None and
\* anything else) never compare equal.
PyEq(a, b) == IF a.type # b.type THEN FALSE ELSE a.val = b.val

\* Python's truth test, as used by "if x:" and "not x".
Truthy(v) ==
  CASE v.type = "NoneType" -> FALSE
    [] v.type = "int"      -> v.val # 0
    [] v.type = "list"     -> Len(v.val) # 0
    [] v.type = "set"      -> v.val # {}
    [] OTHER               -> TRUE

\* len() of a set or a list.
PyLen(v) == IF v.type = "set" THEN Cardinality(v.val) ELSE Len(v.val)

Range(s) == {s[i] : i \in 1..Len(s)}
SeqsUpTo(S, n) == UNION {[1..k -> S] : k \in 1..n}

\* ------------------------------------------------------- architectures
\* An architecture identifier is the sequence of its pieces; "sim_" is the
\* simulator prefix, so <<"sim_", "arm64">> is the string "sim_arm64".
Archs == {<<"arm64">>, <<"x86_64">>, <<"armv7">>}
SliceIds == {<<"sim_", "arm64">>, <<"x86_64">>}

\* arch.replace("sim_", ""): every occurrence of the piece is removed.
KeepSim(arch) == arch
ReplaceSim(arch) == SelectSeq(arch, LAMBDA t : t # "sim_")

\* [arch.replace("sim_", "") for arch in args.slice]: a list, in order, with
\* its duplicates.
NormalizeSlices(slice) == PyList([i \in 1..Len(slice) |-> ReplaceSim(slice[i])])

\* --------------------------------------------------------------- paths
Path(comps) == [lead |-> 1, comps |-> comps]
Slash == Path(<<>>)                                   \* "/"

\* os.path.dirname: drops the last component; the leading slashes stay.
dirname(p) ==
  IF Len(p.comps) <= 1 THEN [lead |-> p.lead, comps |-> <<>>]
  ELSE [lead |-> p.lead, comps |-> SubSeq(p.comps, 1, Len(p.comps) - 1)]

\* The names that end in ".framework".
FrameworkNames == {"F.framework", "G.framework"}
endswith_framework(p) ==
  Len(p.comps) > 0 /\ p.comps[Len(p.comps)] \in FrameworkNames

\* os.path.relpath(path, start) for a start that is an ancestor of path.
relpath_from_parent(p, start) == SubSeq(p.comps, Len(start.comps), Len(p.comps))
relpath(p, start) == SubSeq(p.comps, Len(start.comps) + 1, Len(p.comps))

\* os.path.join(a, rel) for a relative path rel.
os_path_join(a, rel) == [lead |-> a.lead, comps |-> a.comps \o rel]

\* A path is a directory or lies below it.
IsUnder(p, d) ==
  /\ p.lead = d.lead
  /\ Len(d.comps) <= Len(p.comps)
  /\ SubSeq(p.comps, 1, Len(d.comps)) = d.comps

\* The while loop of _relpath_from_framework from a given parent_dir with
\* framework_dir still None: the values of (parent_dir, framework_dir) when
\* the loop ends.
RECURSIVE climb(_)
climb(parent_dir) ==
  IF parent_dir # Slash
  THEN IF endswith_framework(parent_dir)
       THEN [parent_dir |-> parent_dir, framework_dir |-> PyTuple(parent_dir)]
       ELSE climb(dirname(parent_dir))
  ELSE [parent_dir |-> parent_dir, framework_dir |-> PyNone]

\* _relpath_from_framework: None, or the tuple (relative path, framework_dir).
relpath_from_framework(framework_absolute_path) ==
  LET r == climb(dirname(framework_absolute_path))
  IN  IF r.parent_dir = Slash THEN PyNone
      ELSE PyTuple(<<relpath(framework_absolute_path, r.framework_dir.val),
                     r.framework_dir.val>>)

\* ---------------------------------------------------------- filesystem
\* A tree maps the path of an entry relative to the tree's root (<<>> is the
\* root directory itself) to the entry.  A symbolic link keeps the text of
\* its target, a path relative to the directory that holds the link.
NoData == [id |-> "", lipo |-> {}, stripped |-> FALSE]
Dir(mtime) ==
  [kind |-> "dir", target |-> <<>>, mode |-> 493, mtime |-> mtime, data |-> NoData]
File(id, mode, mtime) ==
  [kind |-> "file", target |-> <<>>, mode |-> mode, mtime |-> mtime,
   data |-> [id |-> id, lipo |-> {}, stripped |-> FALSE]]
Link(target, mtime) ==
  [kind |-> "symlink", target |-> target, mode |-> 511, mtime |-> mtime,
   data |-> NoData]

\* F.framework: a versioned bundle, its top-level binary a link through
\* Versions/Current.  G.framework: a flat bundle with a dangling link.
BundleF ==
  (<<>> :> Dir(1)) @@
  (<<"Versions">> :> Dir(2)) @@
  (<<"Versions", "A">> :> Dir(1)) @@
  (<<"Versions", "A", "F">> :> File("F", 420, 2)) @@
  (<<"Versions", "Current">> :> Link(<<"A">>, 1)) @@
  (<<"F">> :> Link(<<"Versions", "Current", "F">>, 2))
BundleG ==
  (<<>> :> Dir(2)) @@
  (<<"G">> :> File("G", 292, 1)) @@
  (<<"Headers">> :> Link(<<"gone">>, 1))
StaleTree ==
  (<<>> :> Dir(3)) @@ (<<"old">> :> File("old", 420, 3))

RootF == Path(<<"fw", "F.framework">>)
RootG == Path(<<"fw", "G.framework">>)
SourceBundles == (RootF :> BundleF) @@ (RootG :> BundleG)

\* The binary members a command line may name.
BinaryPaths ==
  { Path(<<"fw", "F.framework", "F">>),
    Path(<<"fw", "F.framework", "Versions", "A", "F">>),
    Path(<<"fw", "G.framework", "G">>),
    Path(<<"fw", "plain", "X">>) }

Absent == [exists |-> FALSE, tree |-> <<>>, origin |-> "none", signed |-> FALSE]
NoZip == [exists |-> FALSE, content |-> <<>>, origin |-> "none"]

\* Where a path of a tree leads once every symbolic link on it is followed
\* (what os.stat sees); ok is FALSE when it leads nowhere.
RECURSIVE ResolveFrom(_, _, _)
ResolveFrom(tree, done, rest) ==
  IF rest = <<>> THEN [ok |-> TRUE, path |-> done]
  ELSE LET q == Append(done, Head(rest))
       IN  IF q \notin DOMAIN tree THEN [ok |-> FALSE, path |-> q]
           ELSE IF tree[q].kind = "symlink"
                THEN ResolveFrom(tree, done, tree[q].target \o Tail(rest))
                ELSE ResolveFrom(tree, q, Tail(rest))
Resolve(tree, p) == ResolveFrom(tree, <<>>, p)

Children(tree, d) ==
  {q \in DOMAIN tree : Len(q) = Len(d) + 1 /\ SubSeq(q, 1, Len(d)) = d}

TreeOf(pairs) ==
  [p \in {x[1] : x \in pairs} |-> (CHOOSE x \in pairs : x[1] = p)[2]]

\* shutil.copytree(src, dst) with its default symlinks=False: a link is
\* followed, so a link to a directory is copied as that directory and a link
\* to a file as a regular file (copy2 keeps mode and mtime); a link that
\* leads nowhere is recorded as an error and the rest is still copied.
RECURSIVE copytree_entries(_, _, _)
copytree_entries(tree, srcdir, dstdir) ==
  LET one(q) ==
        LET name == q[Len(q)]
            real == Resolve(tree, q)
        IN  IF ~real.ok
            THEN [entries |-> {}, errors |-> {Append(dstdir, name)}]
            ELSE IF tree[real.path].kind = "dir"
                 THEN copytree_entries(tree, real.path, Append(dstdir, name))
                 ELSE [entries |-> {<<Append(dstdir, name), tree[real.path]>>},
                       errors |-> {}]
      parts == {one(q) : q \in Children(tree, srcdir)}
  IN  [entries |-> {<<dstdir, tree[srcdir]>>} \cup UNION {x.entries : x \in parts},
       errors  |-> UNION {x.errors : x \in parts}]

copytree(tree) ==
  LET r == copytree_entries(tree, <<>>, <<>>)
  IN  [tree |-> TreeOf(r.entries), errors |-> r.errors]

\* ------------------------------------------------ external collaborators
\* os.chmod(path, 0o755) on an entry of the staged tree.
chmod(tree, p, mode) == [tree EXCEPT ![p].mode = mode]

\* lipo.invoke_lipo(binary, archs, binary): the file is rewritten in place
\* and keeps only the requested architectures.
invoke_lipo(tree, p, archs) ==
  [tree EXCEPT ![p].data.lipo = archs, ![p].mtime = 9]

\* bitcode_strip.invoke(binary, binary): the file is rewritten in place.
bitcode_strip_invoke(tree, p) ==
  [tree EXCEPT ![p].data.stripped = TRUE, ![p].mtime = 9]

\* --------------------------------------------------------- Bundle Copier
\* The members after the first, in order (lines 73-77): "mismatch" at the
\* first member whose root differs, TypeError at the first member for which
\* the locator returned None (a None cannot be unpacked), else "ok".
RECURSIVE verify_roots_no_compare(_, _)
verify_roots_no_compare(rest, framework_dir) ==
  IF rest = <<>> THEN "ok"
  ELSE IF relpath_from_framework(Head(rest)).type = "NoneType" THEN "TypeError"
  ELSE verify_roots_no_compare(Tail(rest), framework_dir)
RECURSIVE verify_roots(_, _)
verify_roots(rest, framework_dir) ==
  IF rest = <<>> THEN "ok"
  ELSE LET r == relpath_from_framework(Head(rest))
       IN  IF r.type = "NoneType" THEN "TypeError"
           ELSE IF r.val[2] # framework_dir THEN "mismatch"
           ELSE verify_roots(Tail(rest), framework_dir)

\* The tree that holds an absolute path: the one at output_path, one of the
\* source bundles, or none.
Locate(bundles, output_path, p) ==
  IF IsUnder(p, output_path) THEN [where |-> "out", root |-> output_path]
  ELSE IF \E r \in DOMAIN bundles : IsUnder(p, r)
  THEN [where |-> "src", root |-> CHOOSE r \in DOMAIN bundles : IsUnder(p, r)]
  ELSE [where |-> "none", root |-> Slash]

\* One tool is run on the file at the absolute path `binary`, which it
\* changes in place.  st.bundles are the source bundles, st.tree the tree at
\* output_path, st.log the tool invocations made, st.exc an exception that
\* has ended the loop.
Invoke(st, output_path, binary, tool, archs) ==
  LET Op(t, q) ==
        CASE tool = "chmod"         -> chmod(t, q, 493)
          [] tool = "lipo"          -> invoke_lipo(t, q, archs)
          [] tool = "bitcode_strip" -> bitcode_strip_invoke(t, q)
      at == Locate(st.bundles, output_path, binary)
      tree == IF at.where = "out" THEN st.tree ELSE st.bundles[at.root]
      real == Resolve(tree, relpath(binary, at.root))
      entry == [tool |-> tool, path |-> binary, archs |-> archs]
  IN  IF st.exc.type # "NoneType" THEN st
      ELSE IF at.where = "none" \/ ~real.ok
      THEN [st EXCEPT !.exc = PyExc("FileNotFoundError")]
      ELSE IF at.where = "out"
      THEN [st EXCEPT !.tree = Op(tree, real.path), !.log = Append(@, entry)]
      ELSE [st EXCEPT !.bundles[at.root] = Op(tree, real.path),
                      !.log = Append(@, entry)]

\* Line 87: the file the tools are run on.
source_binary_path(output_path, framework_binary, input_relpath) == framework_binary
output_binary_path(output_path, framework_binary, input_relpath) ==
  os_path_join(output_path, input_relpath)

\* The loop with the bitcode stripper run ahead of lipo.
RECURSIVE process_binaries_strip_first(_, _, _, _, _)
process_binaries_strip_first(st, binaries, output_path, slices, strip_bitcode) ==
  IF binaries = <<>> \/ st.exc.type # "NoneType" THEN st
  ELSE
    LET framework_binary == Head(binaries)
        input_relpath == relpath_from_framework(framework_binary).val[1]
        binary == output_binary_path(output_path, framework_binary, input_relpath)
        s1 == Invoke(st, output_path, binary, "chmod", {})
        s2 == IF strip_bitcode
              THEN Invoke(s1, output_path, binary, "bitcode_strip", {})
              ELSE s1
        s3 == IF Truthy(slices)
              THEN Invoke(s2, output_path, binary, "lipo", slices.val)
              ELSE s2
    IN  process_binaries_strip_first(s3, Tail(binaries), output_path, slices,
                                     strip_bitcode)

\* The loop of lines 85-92 over the members.
RECURSIVE process_binaries(_, _, _, _, _)
process_binaries(st, binaries, output_path, slices, strip_bitcode) ==
  IF binaries = <<>> \/ st.exc.type # "NoneType" THEN st
  ELSE
    LET framework_binary == Head(binaries)
        input_relpath == relpath_from_framework(framework_binary).val[1]
        binary == output_binary_path(output_path, framework_binary, input_relpath)
        \* line 88
        s1 == Invoke(st, output_path, binary, "chmod", {})
        \* lines 89-90
        s2 == IF Truthy(slices)
              THEN Invoke(s1, output_path, binary, "lipo", slices.val)
              ELSE s1
        \* lines 91-92
        s3 == IF strip_bitcode
              THEN Invoke(s2, output_path, binary, "bitcode_strip", {})
              ELSE s2
    IN  process_binaries(s3, Tail(binaries), output_path, slices, strip_bitcode)

\* The directory that copytree has written at output_path.
Staged(tree) == [exists |-> TRUE, tree |-> tree, origin |-> "run", signed |-> FALSE]

\* _copy_framework_contents(framework_binaries, output_path, slices_needed,
\* strip_bitcode) with `out` what is at output_path: the value returned or
\* the exception raised, what is at output_path and the source bundles
\* afterwards, and the tool invocations made.
copy_framework_contents(bundles, framework_binaries, output_path, out, slices, strip_bitcode) ==
  LET first == relpath_from_framework(framework_binaries[1])
      framework_dir == first.val[2]
      check == verify_roots(Tail(framework_binaries), framework_dir)
      \* lines 80-81: an existing output_path is removed first
      cleared == IF out.exists THEN Absent ELSE out
      copied == copytree(bundles[framework_dir])
      done == process_binaries([bundles |-> bundles, tree |-> copied.tree,
                                log |-> <<>>, exc |-> PyNone],
                               framework_binaries, output_path, slices, strip_bitcode)
      result(value, o) == [ret |-> value, out |-> o, bundles |-> bundles, log |-> <<>>]
  IN  IF Len(framework_binaries) = 0 \/ (output_path.lead = 0 /\ output_path.comps = <<>>)
      THEN result(PyInt(1), out)
      ELSE IF first.type = "NoneType"
      THEN result(PyExc("TypeError"), out)
      ELSE IF check = "TypeError"
      THEN result(PyExc("TypeError"), out)
      ELSE IF check = "mismatch"
      THEN result(PyInt(1), out)
      ELSE IF framework_dir \notin DOMAIN bundles
      THEN result(PyExc("FileNotFoundError"), cleared)
      ELSE IF copied.errors # {}
      THEN result(PyExc("shutil.Error"), Staged(copied.tree))
      ELSE [ret |-> IF done.exc.type # "NoneType" THEN done.exc ELSE PyInt(0),
            out |-> Staged(done.tree), bundles |-> done.bundles, log |-> done.log]

\* ------------------------------------------------------ Archive Packager
zip_epoch_timestamp == 946684800
\* The local clocks a machine may have: time.timezone, the standard local
\* time's seconds west of UTC, and what time.localtime adds to the standard
\* local time at the reference instant, an hour where daylight saving time
\* is then in effect.
Clock(timezone, dst) == [type |-> "clock", timezone |-> timezone, dst |-> dst]
Clocks == {Clock(28800, 0), Clock(0 - 36000, 3600)}
Timezones == {c.timezone : c \in Clocks}
DstOffsets == {c.dst : c \in Clocks}

\* The order in which the OS lists a set of directory entries: some fixed
\* order that does not depend on modification times.
RECURSIVE ListingOrder(_)
ListingOrder(S) ==
  IF S = {} THEN <<>>
  ELSE LET x == CHOOSE x \in S : TRUE IN <<x>> \o ListingOrder(S \ {x})

IsDirEntry(tree, q) == Resolve(tree, q).ok /\ tree[Resolve(tree, q).path].kind = "dir"
WalkDirs(tree, d) == ListingOrder({q \in Children(tree, d) : IsDirEntry(tree, q)})
WalkFiles(tree, d) == ListingOrder({q \in Children(tree, d) : ~IsDirEntry(tree, q)})

\* The paths given to os.utime by the loop of lines 36-39, in order:
\* os.walk(top, topdown=False) yields a directory after the directories below
\* it (a link to a directory is listed but not entered), and the loop body
\* takes the directory's own entries, dirs + files.
RECURSIVE walk_bottom_up(_, _), walk_each_bottom_up(_, _)
walk_bottom_up(tree, d) ==
  walk_each_bottom_up(tree, SelectSeq(WalkDirs(tree, d), LAMBDA q : tree[q].kind = "dir"))
    \o WalkDirs(tree, d) \o WalkFiles(tree, d)
walk_each_bottom_up(tree, ds) ==
  IF ds = <<>> THEN <<>>
  ELSE walk_bottom_up(tree, Head(ds)) \o walk_each_bottom_up(tree, Tail(ds))

\* The same with topdown=True: a directory before the directories below it.
RECURSIVE walk_top_down(_, _), walk_each_top_down(_, _)
walk_top_down(tree, d) ==
  WalkDirs(tree, d) \o WalkFiles(tree, d)
    \o walk_each_top_down(tree, SelectSeq(WalkDirs(tree, d), LAMBDA q : tree[q].kind = "dir"))
walk_each_top_down(tree, ds) ==
  IF ds = <<>> THEN <<>>
  ELSE walk_top_down(tree, Head(ds)) \o walk_each_top_down(tree, Tail(ds))

\* Lines 36-40: the entries in walk order, then the staged root itself.
utime_order_top_down(tree) == <<<<>>>> \o walk_top_down(tree, <<>>)
utime_order(tree) == walk_bottom_up(tree, <<>>) \o <<<<>>>>

\* os.utime(path, (timestamp, timestamp)) on one entry; the link is followed.
\* With `refresh` the filesystem is one that touches the directory holding
\* the entry whenever the entry's time is set.
utime(st, p, timestamp, refresh) ==
  LET real == Resolve(st.tree, p)
      q == real.path
      parent == SubSeq(q, 1, Len(q) - 1)
      set == [st.tree EXCEPT ![q].mtime = timestamp]
  IN  IF st.exc.type # "NoneType" THEN st
      ELSE IF ~real.ok THEN [st EXCEPT !.exc = PyExc("FileNotFoundError")]
      ELSE [st EXCEPT
              !.tree = IF refresh /\ Len(q) > 0
                       THEN [set EXCEPT ![parent].mtime = 9]
                       ELSE set,
              !.log = Append(@, [tool |-> "utime", path |-> p, archs |-> {}])]

RECURSIVE utime_each(_, _, _, _)
utime_each(st, order, timestamp, refresh) ==
  IF order = <<>> THEN st
  ELSE utime_each(utime(st, Head(order), timestamp, refresh), Tail(order),
                  timestamp, refresh)

utime_files_only(tree, timestamp, refresh) ==
  utime_each([tree |-> tree, log |-> <<>>, exc |-> PyNone],
             SelectSeq(utime_order(tree), LAMBDA q : tree[q].kind # "dir"),
             timestamp, refresh)
utime_all(tree, timestamp, refresh) ==
  utime_each([tree |-> tree, log |-> <<>>, exc |-> PyNone], utime_order(tree),
             timestamp, refresh)

\* shutil.make_archive(..., "zip", dirname(temp), basename(temp)): one entry
\* for every file and directory under the name of the staged directory, with
\* its content, its mode and its modification time as local clock time
\* (time.localtime: the seconds since the epoch less the zone's offset,
\* plus the daylight saving offset in effect at that time).
make_archive(base, tree, timezone, dst) ==
  [p \in {<<base>> \o q : q \in DOMAIN tree} |->
     LET e == tree[Tail(p)]
     IN  [kind |-> e.kind, mode |-> e.mode, data |-> e.data,
          date_time |-> e.mtime - timezone + dst]]

\* _zip_framework(framework_temp_path, output_zip_path) with `staged` what is
\* at framework_temp_path: the staged directory and the archive afterwards,
\* the os.utime calls made, and the exception raised if any.  (The archive
\* is written at output_zip_path, whose extension is ".zip".)
zip_framework(temp_path, staged, timezone, dst, refresh) ==
  LET timestamp == zip_epoch_timestamp + timezone
      done == IF staged.exists
              THEN utime_all(staged.tree, timestamp, refresh)
              ELSE [tree |-> staged.tree, log |-> <<>>, exc |-> PyNone]
      after == [staged EXCEPT !.tree = done.tree]
  IN  IF done.exc.type # "NoneType"
      THEN [temp |-> after, zip |-> NoZip, log |-> done.log, exc |-> done.exc]
      ELSE [temp |-> after,
            zip  |-> [exists |-> TRUE,
                      content |-> make_archive(temp_path.comps[Len(temp_path.comps)],
                                               after.tree, timezone, dst),
                      origin |-> "run"],
            log |-> done.log, exc |-> PyNone]

\* ------------------------------------------------------- Pipeline Driver
TempPath == Path(<<"tmp", "F_staged">>)
ZipPath == Path(<<"out", "F.zip">>)
StaleTemp == [exists |-> TRUE, tree |-> StaleTree, origin |-> "stale", signed |-> FALSE]
StaleZip == [exists |-> TRUE, content |-> StaleTree, origin |-> "stale"]

\* sys.exit(main()): None is exit status 0, an integer is cut to its low 8
\* bits, an uncaught exception ends the interpreter with status 1.
sys_exit(v) ==
  CASE v.type = "NoneType"  -> 0
    [] v.type = "int"       -> v.val % 256
    [] OTHER                -> 1

\* "if status_code:" after the copier (line 151) and the signer (line 156).
status_failed_never(status) == FALSE
status_failed(status) == Truthy(status)

\* "return status_code" of line 157: the signer's status, as it is.
sign_failure_return_one(status) == PyInt(1)
sign_failure_return(status) == status

\* The slice plan of lines 135-142: the retain-set, or "return 1".
plan_slices_no_single_arch(binary_archs, archs) ==
  IF PyEq(binary_archs, archs)
  THEN [slices_needed |-> PyList(<<>>), returns |-> FALSE]
  ELSE LET inter == PySet(archs.val \cap Range(binary_archs.val))
       IN  [slices_needed |-> inter, returns |-> ~Truthy(inter)]
plan_slices_empty_plan(binary_archs, archs) ==
  IF PyLen(archs) = 1 \/ PyEq(binary_archs, archs)
  THEN [slices_needed |-> PyList(<<>>), returns |-> FALSE]
  ELSE [slices_needed |-> PySet(archs.val \cap Range(binary_archs.val)),
        returns |-> FALSE]
plan_slices(binary_archs, archs) ==
  IF PyLen(archs) = 1 \/ PyEq(binary_archs, archs)
  THEN [slices_needed |-> PyList(<<>>), returns |-> FALSE]
  ELSE LET inter == PySet(archs.val \cap Range(binary_archs.val))
       IN  [slices_needed |-> inter, returns |-> ~Truthy(inter)]

\* The locator and the packager are not run on their own during main().
LocIdle == [pc |-> "idle"]
PackIdle == [pc |-> "idle"]

\* The machine: the architectures lipo reports of the framework's binaries
\* and the local clock's zone.  They are the same for every run; each is
\* drawn when a run first reads it.
HostUnknown == [archs |-> PyNone, clock |-> PyNone]
IsHostArchs(found) == host.archs.type = "NoneType" \/ host.archs = PySet(found)
IsHostClock(clock) == host.clock.type = "NoneType" \/ host.clock = clock

\* Lines 145-146 and 147-148.
keep_if_exists(file) == file
rmtree_if_exists(dir) == IF dir.exists THEN Absent ELSE dir
remove_if_exists(file) == IF file.exists THEN NoZip ELSE file

Init ==
  /\ args \in [framework_binary : SeqsUpTo(BinaryPaths, MaxBinaries),
               slice : SeqsUpTo(SliceIds, MaxSlices),
               strip_bitcode : BOOLEAN,
               temp_path : {TempPath},
               output_zip : {ZipPath}]
  /\ src = SourceBundles
  /\ \E stale \in BOOLEAN :
       /\ temp = IF stale THEN StaleTemp ELSE Absent
       /\ zip = IF stale THEN StaleZip ELSE NoZip
  /\ pc = "start"
  /\ all_binary_archs = PyNone
  /\ framework_archs = PyNone
  /\ slices_needed = PyNone
  /\ status_code = PyNone
  /\ ret = PyNone
  /\ exit_status = PyNone
  /\ steps = <<>>
  /\ tools = <<>>
  /\ host = HostUnknown
  /\ history = <<>>
  /\ loc = LocIdle
  /\ pack = PackIdle

\* The same with the stale outputs deleted on the way.
ResolveArchsDeletingStale ==
  /\ pc = "start"
  /\ all_binary_archs' = NormalizeSlices(args.slice)
  /\ \E found \in SUBSET Archs :
       /\ IsHostArchs(found)
       /\ framework_archs' = PySet(found)
       /\ host' = [host EXCEPT !.archs = PySet(found)]
  /\ IF ~Truthy(framework_archs')
     THEN pc' = "return" /\ ret' = PyInt(1)
     ELSE pc' = "plan" /\ ret' = ret
  /\ temp' = rmtree_if_exists(temp)
  /\ zip' = remove_if_exists(zip)
  /\ UNCHANGED aux
  /\ UNCHANGED <<args, src, slices_needed, status_code, exit_status, steps, tools>>

\* Lines 125-129: the required architectures, the framework's architectures
\* as the slice selector reports them, and the early return on none.
ResolveArchs ==
  /\ pc = "start"
  /\ all_binary_archs' = NormalizeSlices(args.slice)
  /\ \E found \in SUBSET Archs :
       /\ IsHostArchs(found)
       /\ framework_archs' = PySet(found)
       /\ host' = [host EXCEPT !.archs = PySet(found)]
  /\ IF ~Truthy(framework_archs')
     THEN pc' = "return" /\ ret' = PyInt(1)
     ELSE pc' = "plan" /\ ret' = ret
  /\ UNCHANGED aux
  /\ UNCHANGED <<args, src, temp, zip, slices_needed, status_code, exit_status,
                 steps, tools>>

\* Lines 135-142.
PlanSlices ==
  /\ pc = "plan"
  /\ LET plan == plan_slices(all_binary_archs, framework_archs)
     IN  /\ slices_needed' = plan.slices_needed
         /\ IF plan.returns
            THEN pc' = "return" /\ ret' = PyInt(1)
            ELSE pc' = "cleanup" /\ ret' = ret
  /\ UNCHANGED <<host, aux>>
  /\ UNCHANGED <<args, src, temp, zip, all_binary_archs, framework_archs,
                 status_code, exit_status, steps, tools>>

\* Lines 144-148: shutil.rmtree(temp_path) and os.remove(output_zip) when
\* they exist.
DeleteStale ==
  /\ pc = "cleanup"
  /\ temp' = rmtree_if_exists(temp)
  /\ zip' = remove_if_exists(zip)
  /\ steps' = Append(steps, "cleanup")
  /\ pc' = "copy"
  /\ UNCHANGED <<host, aux>>
  /\ UNCHANGED <<args, src, all_binary_archs, framework_archs, slices_needed,
                 status_code, ret, exit_status, tools>>

\* Lines 150-152 with the whole of _copy_framework_contents.
CopyFrameworkContents ==
  /\ pc = "copy"
  /\ LET r == copy_framework_contents(src, args.framework_binary, args.temp_path,
                                      temp, slices_needed, args.strip_bitcode)
     IN  /\ temp' = r.out
         /\ src' = r.bundles
         /\ tools' = tools \o r.log
         /\ IF r.ret.type = "exception"
            THEN /\ status_code' = status_code
                 /\ ret' = r.ret
                 /\ pc' = "return"
            ELSE /\ status_code' = r.ret
                 /\ IF status_failed(r.ret)
                    THEN pc' = "return" /\ ret' = PyInt(1)
                    ELSE pc' = "sign" /\ ret' = ret
  /\ steps' = Append(steps, "copier")
  /\ UNCHANGED <<host, aux>>
  /\ UNCHANGED <<args, zip, all_binary_archs, framework_archs,
                 slices_needed, exit_status>>

\* Lines 154-157: codesigningtool.main(args) signs the staged files in place
\* and returns its status.
Sign ==
  /\ pc = "sign"
  /\ \E s \in 0..MaxSignStatus :
       /\ status_code' = PyInt(s)
       /\ temp' = [temp EXCEPT !.signed = (s = 0)]
       /\ IF status_failed(status_code')
          THEN pc' = "return" /\ ret' = sign_failure_return(status_code')
          ELSE pc' = "zip" /\ ret' = ret
  /\ steps' = Append(steps, "signer")
  /\ UNCHANGED <<host, aux>>
  /\ UNCHANGED <<args, src, zip, all_binary_archs, framework_archs,
                 slices_needed, exit_status, tools>>

\* Line 159 with the whole of _zip_framework; main then returns None.
ZipFramework ==
  /\ pc = "zip"
  /\ \E clock \in Clocks, refresh \in BOOLEAN :
       LET r == zip_framework(args.temp_path, temp, clock.timezone, clock.dst,
                              refresh)
       IN  /\ IsHostClock(clock)
           /\ host' = [host EXCEPT !.clock = clock]
           /\ temp' = r.temp
           /\ zip' = r.zip
           /\ tools' = tools \o r.log
           /\ ret' = r.exc
  /\ steps' = Append(steps, "packager")
  /\ pc' = "return"
  /\ UNCHANGED aux
  /\ UNCHANGED <<args, src, all_binary_archs, framework_archs, slices_needed,
                 status_code, exit_status>>

\* Line 163: sys.exit(main()).
Exit ==
  /\ pc = "return"
  /\ exit_status' = PyInt(sys_exit(ret))
  /\ pc' = "exited"
  /\ UNCHANGED <<host, aux>>
  /\ UNCHANGED <<args, src, temp, zip, all_binary_archs, framework_archs,
                 slices_needed, status_code, ret, steps, tools>>

\* The pipeline is run again, with the same command line on the same
\* machine, after a run that succeeded; what that run left at temp_path and
\* output_zip is there when the next one starts.
Rerun ==
  /\ pc = "exited"
  /\ exit_status = PyInt(0)
  /\ Len(history) < MaxRuns - 1
  /\ history' = Append(history, [exit_status |-> exit_status,
                                 staged |-> temp.exists, zip |-> zip])
  /\ temp' = [temp EXCEPT !.origin = "stale"]
  /\ zip' = [zip EXCEPT !.origin = "stale"]
  /\ pc' = "start"
  /\ all_binary_archs' = PyNone
  /\ framework_archs' = PyNone
  /\ slices_needed' = PyNone
  /\ status_code' = PyNone
  /\ ret' = PyNone
  /\ exit_status' = PyNone
  /\ steps' = <<>>
  /\ tools' = <<>>
  /\ UNCHANGED <<args, src, host, loc, pack>>

Next ==
  \/ ResolveArchs
  \/ PlanSlices
  \/ DeleteStale
  \/ CopyFrameworkContents
  \/ Sign
  \/ ZipFramework
  \/ Exit
  \/ Rerun

Spec == Init /\ [][Next]_vars

\* ------------------------------------------- the Framework Locator alone
\* One call of _relpath_from_framework (lines 46-64), a statement at a time,
\* on a path of up to MaxDepth components after one or more leading slashes.
LocNames == {"fw", "F.framework", "G.framework", "X"}
LocPaths ==
  {[lead |-> l, comps |-> c] : l \in 1..MaxLead, c \in SeqsUpTo(LocNames, MaxDepth)}
MaxClimb == MaxDepth + 2     \* iterations of the while loop that are followed

\* main() is not running.
MainIdle ==
  /\ args = [framework_binary |-> <<>>, slice |-> <<>>, strip_bitcode |-> FALSE,
             temp_path |-> TempPath, output_zip |-> ZipPath]
  /\ src = SourceBundles
  /\ temp = Absent
  /\ zip = NoZip
  /\ pc = "idle"
  /\ all_binary_archs = PyNone
  /\ framework_archs = PyNone
  /\ slices_needed = PyNone
  /\ status_code = PyNone
  /\ ret = PyNone
  /\ exit_status = PyNone
  /\ steps = <<>>
  /\ tools = <<>>
  /\ host = HostUnknown
  /\ history = <<>>
mainvars == <<args, src, temp, zip, pc, all_binary_archs, framework_archs,
              slices_needed, status_code, ret, exit_status, steps, tools, host,
              history>>

LocInit ==
  /\ MainIdle
  /\ pack = PackIdle
  /\ \E path \in LocPaths :
       loc = [pc |-> "start", path |-> path, parent_dir |-> path,
              framework_dir |-> PyNone, ret |-> PyNone, iters |-> 0]

\* Lines 51-52.
LocStart ==
  /\ loc.pc = "start"
  /\ loc' = [loc EXCEPT !.pc = "loop", !.parent_dir = dirname(loc.path)]
  /\ UNCHANGED <<mainvars, pack>>

\* One iteration of the while loop, lines 53-57.
LocClimb ==
  /\ loc.pc = "loop"
  /\ loc.parent_dir # Slash /\ loc.framework_dir = PyNone
  /\ loc.iters < MaxClimb
  /\ IF endswith_framework(loc.parent_dir)
     THEN loc' = [loc EXCEPT !.framework_dir = PyTuple(loc.parent_dir),
                             !.iters = @ + 1]
     ELSE loc' = [loc EXCEPT !.parent_dir = dirname(loc.parent_dir),
                             !.iters = @ + 1]
  /\ UNCHANGED <<mainvars, pack>>

\* The loop condition fails; lines 59-64.
LocReturn ==
  /\ loc.pc = "loop"
  /\ ~(loc.parent_dir # Slash /\ loc.framework_dir = PyNone)
  /\ loc' = [loc EXCEPT
       !.pc = "returned",
       !.ret = IF loc.parent_dir = Slash THEN PyNone
               ELSE PyTuple(<<relpath(loc.path, loc.framework_dir.val),
                              loc.framework_dir.val>>)]
  /\ UNCHANGED <<mainvars, pack>>

LocNext == LocStart \/ LocClimb \/ LocReturn
LocSpec == LocInit /\ [][LocNext]_vars

\* --------------------------------------------- the Archive Packager alone
\* _zip_framework applied, on one machine, to two staged directories one
\* after the other.  A staged directory holds no links (copytree follows
\* them); its entries carry any modification times.
PackMtimes == 1..MaxMtime
PackShapes ==
  { copytree(BundleG).tree,
    [p \in {q \in DOMAIN BundleF : BundleF[q].kind # "symlink"} |-> BundleF[p]] }
PackTrees ==
  UNION { { [p \in DOMAIN shape |-> [shape[p] EXCEPT !.mtime = mt[p]]] :
            mt \in [DOMAIN shape -> PackMtimes] } : shape \in PackShapes }

PackInit ==
  /\ MainIdle
  /\ loc = LocIdle
  /\ \E clock \in Clocks, tree \in PackTrees :
       pack = [pc |-> "first", timezone |-> clock.timezone, dst |-> clock.dst,
               given |-> <<tree>>, archives |-> <<>>]

\* The first directory is packaged.
PackFirst ==
  /\ pack.pc = "first"
  /\ \E refresh \in BOOLEAN :
       LET r == zip_framework(TempPath, Staged(pack.given[1]), pack.timezone,
                              pack.dst, refresh)
       IN  pack' = [pack EXCEPT !.pc = "second",
                                !.archives = Append(@, r.zip.content)]
  /\ UNCHANGED <<mainvars, loc>>

\* Another directory is staged at the same path and packaged.
PackSecond ==
  /\ pack.pc = "second"
  /\ \E tree \in PackTrees, refresh \in BOOLEAN :
       LET r == zip_framework(TempPath, Staged(tree), pack.timezone, pack.dst,
                              refresh)
       IN  pack' = [pack EXCEPT !.pc = "done",
                                !.given = Append(@, tree),
                                !.archives = Append(@, r.zip.content)]
  /\ UNCHANGED <<mainvars, loc>>

PackNext == PackFirst \/ PackSecond
PackSpec == PackInit /\ [][PackNext]_vars

\* ============================================================ properties
\* The identifiers of --slice with the simulator prefix stripped, as a set.
StripSimPrefix(arch) ==
  IF Len(arch) > 0 /\ Head(arch) = "sim_" THEN Tail(arch) ELSE arch
RequiredSet == {StripSimPrefix(args.slice[i]) : i \in 1..Len(args.slice)}

\* The slice plan has been computed for a non-empty framework set.
Planned == pc \notin {"start", "plan"} /\ Truthy(framework_archs)
FrameworkSet == framework_archs.val

Took(step) == step \in Range(steps)
Invoked(tool) == \E i \in 1..Len(tools) : tools[i].tool = tool
Ended == pc = "exited"

\* A path has a proper ancestor directory whose name ends in the suffix, and
\* the nearest such ancestor.
BundleAncestors(p) == {k \in 1..(Len(p.comps) - 1) : p.comps[k] \in FrameworkNames}
HasBundleAncestor(p) == BundleAncestors(p) # {}
NearestRoot(p) ==
  LET k == CHOOSE k \in BundleAncestors(p) : \A j \in BundleAncestors(p) : j <= k
  IN  SubSeq(p.comps, 1, k)
SomeMemberWithoutRoot ==
  \E i \in 1..Len(args.framework_binary) : ~HasBundleAncestor(args.framework_binary[i])

\* The copier's check of the members, in order, comes upon a member whose
\* root differs from the first member's.
CrossRootMismatch ==
  LET b == args.framework_binary
  IN  \E i \in 2..Len(b) :
        /\ \A j \in 1..i : HasBundleAncestor(b[j])
        /\ \A j \in 1..(i - 1) : NearestRoot(b[j]) = NearestRoot(b[1])
        /\ NearestRoot(b[i]) # NearestRoot(b[1])

\* The bundle the copier copies: the one of the first member.
CopiedBundle == src[Path(NearestRoot(args.framework_binary[1]))]

\* C1 (as claimed): whenever the normalized required set equals the
\* framework's architecture set, of any size, the plan is "no extraction" and
\* the extraction tool is never invoked.
C1_ExactMatchNoExtraction ==
  (Planned /\ FrameworkSet = RequiredSet)
    => (~Truthy(slices_needed) /\ ~Invoked("lipo"))

\* C2 (as claimed): after the structural copy every symbolic link of the
\* source bundle is a symbolic link with the same target in the staged copy.
C2_SymlinksPreserved ==
  (Took("copier") /\ temp.exists)
    => \A p \in DOMAIN CopiedBundle :
         CopiedBundle[p].kind = "symlink"
           => /\ p \in DOMAIN temp.tree
              /\ temp.tree[p].kind = "symlink"
              /\ temp.tree[p].target = CopiedBundle[p].target

\* C3 (as claimed): when a run has ended in failure, neither a staging
\* directory nor an output archive exists, stale or new.
C3_NoArtifactAfterFailure ==
  (Ended /\ exit_status.val # 0) => (~temp.exists /\ ~zip.exists)

\* C4 (as claimed): when a member has no bundle root, the copier returns a
\* non-zero status without raising and without touching output_path, and the
\* run ends with status 1.
C4_MissingRootIsStatus ==
  (Took("copier") /\ SomeMemberWithoutRoot)
    => /\ ret.type # "exception"
       /\ status_code.type = "int" /\ status_code.val # 0
       /\ ~temp.exists
       /\ (Ended => exit_status.val = 1)

\* C5: the steps of a run are a prefix of cleanup, copier, signer, packager
\* (each at most once); the signer starts only on the copier's status 0, the
\* packager only on the signer's status 0 after that; only the packager
\* writes an archive; and once main has returned nothing more is done in
\* that run.
StepOrder == <<"cleanup", "copier", "signer", "packager">>
C5_StepsInOrder ==
  [][ history' = history =>
      /\ Len(steps') <= Len(StepOrder)
      /\ steps' = SubSeq(StepOrder, 1, Len(steps'))
      /\ (steps' # steps /\ steps'[Len(steps')] = "signer")
           => (steps = <<"cleanup", "copier">> /\ status_code = PyInt(0))
      /\ (steps' # steps /\ steps'[Len(steps')] = "packager")
           => (steps = <<"cleanup", "copier", "signer">> /\ status_code = PyInt(0))
      /\ (zip'.exists /\ zip' # zip)
           => (steps' # steps /\ steps'[Len(steps')] = "packager")
      /\ (pc \in {"return", "exited"})
           => (steps' = steps /\ zip' = zip /\ temp' = temp)
      /\ (pc' = "return" /\ ret'.type # "NoneType")
           => ("packager" \notin Range(steps') /\ zip'.origin # "run")
    ]_vars
C5_Witness ==
  Ended /\ steps = StepOrder /\ zip.exists /\ zip.origin = "run"

\* C6: the exit status is 0 exactly when the packager ran and wrote the
\* archive, and a non-zero status of the signer is the exit status.
C6_ExitStatus ==
  Ended =>
    /\ (exit_status.val = 0) <=> (Took("packager") /\ zip.exists /\ zip.origin = "run")
    /\ (Took("signer") /\ status_code.val # 0) => exit_status.val = status_code.val
C6_Witness ==
  Ended /\ Took("signer") /\ status_code.val > 1 /\ exit_status.val > 1

\* C7: with a single framework architecture the plan is "no extraction"
\* whatever is required, the run goes on to the copier, and the extraction
\* tool is never invoked.
C7_SingleArchNoExtraction ==
  (Planned /\ Cardinality(FrameworkSet) = 1)
    => /\ slices_needed = PyList(<<>>)
       /\ ~Invoked("lipo")
       /\ (pc \in {"return", "exited"} => Took("copier"))
C7_Witness ==
  /\ Ended /\ Planned /\ Cardinality(FrameworkSet) = 1
  /\ FrameworkSet \cap RequiredSet = {}
  /\ Took("copier") /\ Invoked("chmod")

\* C8: with a framework set of two or more architectures that shares none
\* with the required set, the run ends with status 1 and the copier, the
\* signer and the packager are never invoked.
Incompatible ==
  /\ Planned
  /\ Cardinality(FrameworkSet) # 1
  /\ FrameworkSet # RequiredSet
  /\ FrameworkSet \cap RequiredSet = {}
C8_IncompatibleArchsFail ==
  Incompatible
    => /\ ~Took("copier") /\ ~Took("signer") /\ ~Took("packager")
       /\ pc \in {"return", "exited"}
       /\ ret = PyInt(1)
       /\ (Ended => exit_status.val = 1)
C8_Witness == Incompatible /\ Ended

\* C9: a non-empty retain-set is the intersection of the framework set with
\* the prefix-stripped required set, and it is what the extraction tool gets.
C9_PlanIsIntersection ==
  (Planned /\ Truthy(slices_needed))
    => /\ slices_needed.val = FrameworkSet \cap RequiredSet
       /\ \A i \in 1..Len(tools) :
            tools[i].tool = "lipo" => tools[i].archs = FrameworkSet \cap RequiredSet
C9_Witness ==
  /\ Planned /\ Truthy(slices_needed) /\ Invoked("lipo")
  /\ \E i \in 1..Len(args.slice) :
       Head(args.slice[i]) = "sim_" /\ Tail(args.slice[i]) \in slices_needed.val

\* C10: when the copier comes upon a member whose root differs from the
\* first member's, it returns a non-zero status having changed nothing at
\* output_path and invoked no tool, and the run ends with status 1.
C10_MismatchAbortsBeforeWriting ==
  [][ /\ (pc = "copy" /\ CrossRootMismatch)
           => /\ temp' = temp
              /\ tools' = tools
              /\ status_code'.type = "int" /\ status_code'.val # 0
              /\ pc' = "return" /\ ret' = PyInt(1)
      /\ (pc = "return" /\ Took("copier") /\ CrossRootMismatch)
           => exit_status' = PyInt(1)
    ]_vars
C10_Witness ==
  Ended /\ Took("copier") /\ CrossRootMismatch /\ ~temp.exists /\ exit_status.val = 1

\* C11: for a path with a proper ancestor whose name ends in the suffix the
\* locator returns the nearest such ancestor and the path relative to it,
\* which joined give the path back; the result depends on the nearest
\* ancestor only, so members under one root get the same root.  The
\* locator as the copier calls it returns the same.
LocExpectedRoot(p) == [lead |-> p.lead, comps |-> NearestRoot(p)]
C11_LocatorResult ==
  (loc.pc = "returned" /\ HasBundleAncestor(loc.path))
    => /\ loc.ret.type = "tuple"
       /\ loc.ret.val[2] = LocExpectedRoot(loc.path)
       /\ loc.ret.val[2].comps \o loc.ret.val[1] = loc.path.comps
       /\ Len(loc.ret.val[1]) > 0
       /\ (loc.path.lead = 1 => relpath_from_framework(loc.path) = loc.ret)
C11_Witness ==
  /\ loc.pc = "returned"
  /\ Cardinality(BundleAncestors(loc.path)) = 2
  /\ loc.ret.type = "tuple"
  /\ Len(loc.ret.val[1]) = 1

\* C19 (as claimed): every iteration of the locator's loop on an absolute
\* path either finds a directory that ends in the suffix or leaves a
\* strictly shorter parent path.
PathLength(p) == p.lead + Len(p.comps)
C19_ClimbShortens ==
  [][ (loc.pc = "loop" /\ loc'.pc = "loop" /\ loc'.iters = loc.iters + 1)
        => \/ loc'.framework_dir # PyNone
           \/ PathLength(loc'.parent_dir) < PathLength(loc.parent_dir)
    ]_vars

\* C12: os.utime is never called on an entry after it was called on a
\* directory that contains the entry, and the staged root comes last; so even
\* on a filesystem where setting an entry's time touches its directory,
\* every entry of the staged bundle, the root included, and every entry of
\* the archive carries the one reference instant once the packager is done.
UtimeCalls == SelectSeq(tools, LAMBDA t : t.tool = "utime")
IsProperAncestor(a, b) == Len(a) < Len(b) /\ SubSeq(b, 1, Len(a)) = a
C12_BottomUpTimestamps ==
  Took("packager")
    => /\ \A i, j \in 1..Len(UtimeCalls) :
            i < j => ~IsProperAncestor(UtimeCalls[i].path, UtimeCalls[j].path)
       /\ UtimeCalls[Len(UtimeCalls)].path = <<>>
       /\ {UtimeCalls[i].path : i \in 1..Len(UtimeCalls)} = DOMAIN temp.tree
       /\ \E tz \in Timezones :
            \A p \in DOMAIN temp.tree : temp.tree[p].mtime = zip_epoch_timestamp + tz
       /\ \E dst \in DstOffsets :
            \A n \in DOMAIN zip.content :
              zip.content[n].date_time = zip_epoch_timestamp + dst
C12_Witness ==
  /\ Took("packager") /\ Ended
  /\ \E i \in 1..Len(UtimeCalls) : Len(UtimeCalls[i].path) = 3
  /\ \E i \in 1..Len(tools) : tools[i].tool = "lipo"

\* C13: two staged directories with the same entries, kinds, modes and file
\* contents, whatever their modification times, are packaged into identical
\* archives.
SameContent(a, b) ==
  /\ DOMAIN a = DOMAIN b
  /\ \A p \in DOMAIN a :
       a[p].kind = b[p].kind /\ a[p].mode = b[p].mode /\ a[p].data = b[p].data
C13_ArchiveDeterminism ==
  (pack.pc = "done" /\ SameContent(pack.given[1], pack.given[2]))
    => pack.archives[1] = pack.archives[2]
C13_Witness ==
  /\ pack.pc = "done"
  /\ SameContent(pack.given[1], pack.given[2])
  /\ \A p \in DOMAIN pack.given[1] : pack.given[1][p].mtime # pack.given[2][p].mtime
  /\ \E p \in DOMAIN pack.given[1] : Len(p) = 3
  /\ pack.archives[1] = pack.archives[2]

\* The tool invocations of the Bundle Copier, and those the claim expects of
\* a list of members: per member, in list order, chmod, then lipo if the
\* slice plan is non-empty, then the bitcode stripper if strip_bitcode is
\* set, each on the member's file below temp_path.
CopierLog == SelectSeq(tools, LAMBDA t : t.tool # "utime")
CopierSucceeded == Took("copier") /\ (pc = "sign" \/ Took("signer"))
StagedMember(b) ==
  os_path_join(args.temp_path,
               SubSeq(b.comps, Len(NearestRoot(b)) + 1, Len(b.comps)))
ExpectedFor(b) ==
  <<[tool |-> "chmod", path |-> StagedMember(b), archs |-> {}]>>
    \o (IF Truthy(slices_needed)
        THEN <<[tool |-> "lipo", path |-> StagedMember(b), archs |-> slices_needed.val]>>
        ELSE <<>>)
    \o (IF args.strip_bitcode
        THEN <<[tool |-> "bitcode_strip", path |-> StagedMember(b), archs |-> {}]>>
        ELSE <<>>)
RECURSIVE ExpectedLog(_)
ExpectedLog(members) ==
  IF members = <<>> THEN <<>>
  ELSE ExpectedFor(Head(members)) \o ExpectedLog(Tail(members))
RECURSIVE Distinct(_)
Distinct(members) ==
  IF members = <<>> THEN <<>>
  ELSE LET front == SubSeq(members, 1, Len(members) - 1)
           last == members[Len(members)]
       IN  IF last \in Range(front) THEN Distinct(front)
           ELSE Append(Distinct(front), last)

\* C16 as stated: once the copier has succeeded, every binary member has
\* been processed exactly once: chmod, then lipo iff the slice plan is
\* non-empty, then the bitcode stripper iff strip_bitcode is set, on the
\* staged file and never on the source.
C16_EachMemberOnce ==
  CopierSucceeded
    => /\ CopierLog = ExpectedLog(Distinct(args.framework_binary))
       /\ src = SourceBundles

\* C16 amended: once the copier has succeeded, every entry of the
\* framework_binary list has been processed once, in list order (a member
\* named twice is processed twice): chmod, then lipo iff the slice plan is
\* non-empty, then the bitcode stripper iff strip_bitcode is set, on the
\* staged file and never on the source.
C16_EachEntryInOrder ==
  CopierSucceeded
    => /\ CopierLog = ExpectedLog(args.framework_binary)
       /\ \A i \in 1..Len(CopierLog) : IsUnder(CopierLog[i].path, args.temp_path)
       /\ src = SourceBundles
C16_Witness ==
  /\ CopierSucceeded
  /\ Len(args.framework_binary) = 2
  /\ args.framework_binary[1] # args.framework_binary[2]
  /\ Len(CopierLog) = 6

\* C17: with temp_path and output_zip outside the source bundles and no
\* source bundle inside temp_path, no step of a run changes anything of the
\* source bundles.
OutsideSource ==
  \A r \in DOMAIN src :
    /\ ~IsUnder(args.temp_path, r)
    /\ ~IsUnder(args.output_zip, r)
    /\ ~IsUnder(r, args.temp_path)
C17_SourceUntouched == [][OutsideSource => src' = src]_vars
C17_Witness ==
  /\ Ended
  /\ exit_status = PyInt(0)
  /\ Invoked("lipo") /\ Invoked("bitcode_strip")
  /\ src = SourceBundles

\* C14: a run that follows a successful run with the same command line has
\* nothing at temp_path and nothing at output_zip when its copier starts;
\* it can only fail in its signing step; and when it succeeds the archive
\* it leaves has the content of the archive the run before it left.
InRerun == Len(history) > 0
Previous == history[Len(history)]
C14_IdempotentRerun ==
  InRerun
    => /\ Previous.exit_status = PyInt(0)
       /\ Previous.staged /\ Previous.zip.exists
       /\ (pc = "copy" => ~temp.exists /\ ~zip.exists)
       /\ (Took("copier") => steps[1] = "cleanup")
       /\ (Ended =>
             \/ /\ exit_status = PyInt(0)
                /\ zip.exists
                /\ zip.content = Previous.zip.content
             \/ /\ steps = <<"cleanup", "copier", "signer">>
                /\ status_code # PyInt(0))
C14_Witness ==
  /\ InRerun /\ Ended
  /\ exit_status = PyInt(0)
  /\ Invoked("lipo")
  /\ zip.content = Previous.zip.content

\* C15: when a run has ended successfully nothing is left at temp_path.
C15_NoStagingAfterSuccess ==
  (Ended /\ exit_status = PyInt(0)) => ~temp.exists

\* C18: a run that ends because the slice selector found no architecture,
\* or because the framework's architectures and the required ones are
\* incompatible, has taken none of the later steps and ends with status 1,
\* and none of its steps has changed what is at temp_path, at output_zip
\* or in the source bundles.
ArchResolutionFailed ==
  /\ pc \in {"return", "exited"}
  /\ \/ framework_archs.type = "set" /\ framework_archs.val = {}
     \/ Incompatible
C18_ArchFailureMutatesNothing ==
  /\ [](ArchResolutionFailed
          => /\ steps = <<>> /\ tools = <<>>
             /\ ret = PyInt(1)
             /\ (Ended => exit_status = PyInt(1)))
  /\ [][(steps' = <<>> /\ history' = history)
          => (temp' = temp /\ zip' = zip /\ src' = src)]_vars
C18_Witness ==
  /\ Ended /\ ArchResolutionFailed
  /\ exit_status = PyInt(1)
  /\ temp = StaleTemp /\ zip = StaleZip

====
